---- MODULE Spec2Model ----
(***************************************************************************)
(* Model of the multi-turn part of misc/prompt_caching.ipynb: the class    *)
(* ConversationHistory (the log self.turns, add_turn_assistant,            *)
(* add_turn_user, get_turns) and the loop simulate_conversation that       *)
(* drives it against the completion API.                                   *)
(*                                                                         *)
(* A turn is the dict the notebook stores:                                 *)
(*   {"role": r, "content": [{"type": "text", "text": t}]}                 *)
(* modelled as [role |-> r, content |-> << [type, text, cache_control] >>] *)
(* where cache_control = "none" stands for the absent key and "ephemeral"  *)
(* for {"type": "ephemeral"}.  Texts are small naturals.                   *)
(***************************************************************************)
EXTENDS Integers, Sequences, FiniteSets, TLC

\* ---------------------------------------------------------------- bounds
\* longest log explored under Spec
MaxTurns == 4

\* number of distinct message texts (user inputs and assistant replies)
NumTexts == 2

\* most get_turns() calls explored between two appends
MaxCalls == 2

\* len(questions), the list literal of the notebook
NumQuestions == 4

\* questions[k - 1], four distinct texts
Question(k) == k

Texts == 1..NumTexts

\* number of distinct reply texts the API may return in simulate_conversation
NumReplies == 3

Replies == 1..NumReplies

Roles == {"user", "assistant"}

\* the book text inside system_message, one opaque value
BookText == 0

VARIABLES
  turns,      \* conversation_history.turns
  out,        \* the list the last completed get_turns() call returned
  before,     \* the list the get_turns() call before that one returned
  error,      \* "none", or the exception the last get_turns() call raised
  call,       \* the method called last and its argument
  calls,      \* number of get_turns() calls that returned since the last append
  pc,         \* position of simulate_conversation in its loop body
  i,          \* enumerate(questions, 1) index of the current iteration
  request,    \* keyword arguments of the last client.messages.create call
  last_user_index  \* the reference design's maintained index of the last
                   \* user turn, 0 for none (not a field of the notebook)

vars == <<turns, out, before, error, call, calls, pc, i, request, last_user_index>>

\* ------------------------------------------------------- pure helpers
\* reversed(xs) / list(reversed(xs))
Reversed(xs) == [k \in 1..Len(xs) |-> xs[Len(xs) + 1 - k]]

\* a content block {"type": "text", "text": text} (no cache_control key)
TextBlock(text) == [type |-> "text", text |-> text, cache_control |-> "none"]

\* the dict literal that add_turn_assistant / add_turn_user append
NewTurnNoContent(role, text) == [role |-> role, content |-> <<>>]

NewTurn(role, text) == [role |-> role, content |-> <<TextBlock(text)>>]

\* self.turns.append(turn)
PrependTurn(ts, turn) == <<turn>> \o ts

AppendTurn(ts, turn) == Append(ts, turn)

\* turn["role"] == "user"
AnyRole(turn) == TRUE

IsUser(turn) == turn.role = "user"

\* user_turns_processed < 1
UnderLimitTwo(utp) == utp < 2

UnderLimit(utp) == utp < 1

\* the dict literal get_turns builds for the last user turn; reading
\* turn["content"][0] needs a first content block
HasFirstBlock(turn) == Len(turn.content) >= 1

AnnotatedTurn(turn) ==
  [role |-> "user",
   content |-> << [type |-> "text",
                   text |-> turn.content[1].text,
                   cache_control |-> "ephemeral"] >>]

\* result = []
StaleResult == Reversed(out)

InitialResult == <<>>

\* the for loop of get_turns: k is the index of the next turn that
\* reversed(self.turns) yields (Len(ts) first, 0 when exhausted)
RECURSIVE ScanReversed(_, _, _, _)
ScanReversed(ts, k, result, utp) ==
  IF k = 0
    THEN [raised |-> FALSE, result |-> result]
    ELSE LET turn == ts[k] IN
      IF IsUser(turn) /\ UnderLimit(utp)
        THEN IF HasFirstBlock(turn)
               THEN ScanReversed(ts, k - 1, Append(result, AnnotatedTurn(turn)), utp + 1)
               ELSE [raised |-> TRUE, result |-> result]
        ELSE ScanReversed(ts, k - 1, Append(result, turn), utp)

\* return list(reversed(result))
ReturnForwardScanOrder(result) == result

ReturnValue(result) == Reversed(result)

\* get_turns(self) as a function of the log: the exception flag and the
\* returned list
GetTurns(ts) ==
  LET s == ScanReversed(ts, Len(ts), InitialResult, 0) IN
    [raised |-> s.raised,
     value |-> IF s.raised THEN <<>> ELSE ReturnValue(s.result)]

\* system=[{"type": "text", "text": system_message, "cache_control": ...}]
SystemBlocksUnannotatedLater ==
  << [type |-> "text", text |-> BookText,
      cache_control |-> IF i = 1 THEN "ephemeral" ELSE "none"] >>

SystemBlocks ==
  << [type |-> "text", text |-> BookText, cache_control |-> "ephemeral"] >>

NoRequest == [system |-> <<>>, messages |-> <<>>]

\* ------------------------------------------------------------- state
NoCall == [op |-> "none", arg |-> 0]

\* conversation_history = ConversationHistory()
InitHistory ==
  /\ turns = <<>>
  /\ out = <<>>
  /\ before = <<>>
  /\ error = "none"
  /\ call = NoCall
  /\ calls = 0
  /\ request = NoRequest
  /\ last_user_index = 0

\* a fresh history used directly, simulate_conversation not running
Init ==
  /\ InitHistory
  /\ pc = "idle"
  /\ i = 0

\* ------------------------------------------ ConversationHistory methods
add_turn_assistant(content) ==
  /\ turns' = AppendTurn(turns, NewTurn("assistant", content))
  /\ call' = [op |-> "add_turn_assistant", arg |-> content]
  /\ calls' = 0
  /\ UNCHANGED <<out, before, error, last_user_index>>

add_turn_user(content) ==
  /\ turns' = AppendTurn(turns, NewTurn("user", content))
  /\ call' = [op |-> "add_turn_user", arg |-> content]
  /\ calls' = 0
  /\ last_user_index' = Len(turns) + 1
  /\ UNCHANGED <<out, before, error>>

\* a get_turns that writes cache_control into the stored turn it marks
get_turns_marks_log ==
  LET r == GetTurns(turns) IN
    /\ call' = [op |-> "get_turns", arg |-> 0]
    /\ error' = IF r.raised THEN "IndexError" ELSE "none"
    /\ out' = IF r.raised THEN out ELSE r.value
    /\ before' = IF r.raised THEN before ELSE out
    /\ calls' = IF r.raised THEN calls ELSE calls + 1
    /\ turns' = IF r.raised THEN turns ELSE r.value
    /\ UNCHANGED last_user_index

get_turns ==
  LET r == GetTurns(turns) IN
    /\ call' = [op |-> "get_turns", arg |-> 0]
    /\ error' = IF r.raised THEN "IndexError" ELSE "none"
    /\ out' = IF r.raised THEN out ELSE r.value
    /\ before' = IF r.raised THEN before ELSE out
    /\ calls' = IF r.raised THEN calls ELSE calls + 1
    /\ UNCHANGED <<turns, last_user_index>>

\* ----------------------------------- a caller using the class freely
AddTurnAssistant ==
  /\ pc = "idle"
  /\ Len(turns) < MaxTurns
  /\ \E content \in Texts : add_turn_assistant(content)
  /\ UNCHANGED <<pc, i, request>>

AddTurnUser ==
  /\ pc = "idle"
  /\ Len(turns) < MaxTurns
  /\ \E content \in Texts : add_turn_user(content)
  /\ UNCHANGED <<pc, i, request>>

CallGetTurns ==
  /\ pc = "idle"
  /\ calls < MaxCalls
  /\ get_turns
  /\ UNCHANGED <<pc, i, request>>

Next == AddTurnAssistant \/ AddTurnUser \/ CallGetTurns

Spec == Init /\ [][Next]_vars

\* ------------------------------------------------ simulate_conversation
\* the cell's top level: a fresh history, then simulate_conversation()
SimInit ==
  /\ InitHistory
  /\ pc = "loop"
  /\ i = 0

\* for i, question in enumerate(questions, 1): add_turn_user(question)
SimAddUser ==
  /\ pc = "loop"
  /\ i < NumQuestions
  /\ i' = i + 1
  /\ add_turn_user(Question(i + 1))
  /\ pc' = "create"
  /\ UNCHANGED request

\* the for loop is exhausted
SimLoopEnd ==
  /\ pc = "loop"
  /\ i = NumQuestions
  /\ pc' = "done"
  /\ UNCHANGED <<turns, out, before, error, call, calls, i, request, last_user_index>>

\* client.messages.create(system=[...], messages=get_turns()) is sent
SimCreate ==
  /\ pc = "create"
  /\ get_turns
  /\ IF error' = "none"
       THEN /\ request' = [system |-> SystemBlocks, messages |-> out']
            /\ pc' = "wait"
       ELSE /\ request' = request
            /\ pc' = "aborted"
  /\ UNCHANGED i

\* a reply that also passes as a user turn
SimResponseAsUser ==
  /\ pc = "wait"
  /\ \E assistant_reply \in Replies : add_turn_user(assistant_reply)
  /\ pc' = "loop"
  /\ UNCHANGED <<i, request>>

\* the API answers: assistant_reply = response.content[0].text, then
\* add_turn_assistant(assistant_reply)
SimResponse ==
  /\ pc = "wait"
  /\ \E assistant_reply \in Replies : add_turn_assistant(assistant_reply)
  /\ pc' = "loop"
  /\ UNCHANGED <<i, request>>

\* the API call raises (transport, authentication, empty content): the
\* exception leaves simulate_conversation
SimApiError ==
  /\ pc = "wait"
  /\ pc' = "aborted"
  /\ UNCHANGED <<turns, out, before, error, call, calls, i, request, last_user_index>>

SimNext == SimAddUser \/ SimLoopEnd \/ SimCreate \/ SimResponse \/ SimApiError

SimSpec == SimInit /\ [][SimNext]_vars

\* ------------------------------------------------- vocabulary of the claims
\* a record carries the cache annotation
Annotated(rec) ==
  \E b \in 1..Len(rec.content) : rec.content[b].cache_control = "ephemeral"

MarkedPositions(s) == {k \in 1..Len(s) : Annotated(s[k])}

UserPositions(ts) == {k \in 1..Len(ts) : ts[k].role = "user"}

Greatest(S) == IF S = {} THEN 0 ELSE CHOOSE m \in S : \A n \in S : n <= m

\* position of the chronologically latest user turn, 0 when there is none
LastUser(ts) == Greatest(UserPositions(ts))

\* position of the annotated record of an output, 0 when there is none
Mark(s) == Greatest(MarkedPositions(s))

SpeakerOf(rec) == rec.role

TextOf(rec) == rec.content[1].text

\* out was returned by get_turns() on the log as it is now
Current == calls >= 1

\* positions of the turns appended after the call that returned `before`
Appended == (Len(before) + 1)..Len(turns)

\* ------------------------------------------------------------ claims
\* C1: whenever the log holds at least one user turn, the output of
\* get_turns() has exactly one annotated record, at the position of the
\* chronologically latest user turn; every other record is unannotated.
C1_OnlyLatestUserAnnotated ==
  (Current /\ UserPositions(turns) # {}) =>
    MarkedPositions(out) = {LastUser(turns)}

C1_Witness ==
  /\ Current
  /\ Cardinality(UserPositions(turns)) >= 2
  /\ turns[Len(turns)].role = "assistant"
  /\ MarkedPositions(out) = {LastUser(turns)}

\* C2: the output of get_turns() is as long as the log, and record k has
\* the speaker and the text of turn k, wherever the marked turn was found.
C2_OrderPreserved ==
  Current =>
    /\ Len(out) = Len(turns)
    /\ \A k \in 1..Len(turns) :
         /\ SpeakerOf(out[k]) = SpeakerOf(turns[k])
         /\ TextOf(out[k]) = TextOf(turns[k])

C2_Witness ==
  /\ Current
  /\ Len(turns) >= 3
  /\ LastUser(turns) > 1
  /\ LastUser(turns) < Len(turns)
  /\ TextOf(turns[1]) # TextOf(turns[Len(turns)])
  /\ SpeakerOf(turns[1]) # SpeakerOf(turns[Len(turns) - 1])
  /\ Len(out) = Len(turns)

\* C3: for a log without user turns (the empty log included) get_turns()
\* returns every turn unannotated in the original order.
C3_NoUserNothingAnnotated ==
  (Current /\ UserPositions(turns) = {}) =>
    /\ MarkedPositions(out) = {}
    /\ out = turns

C3_Witness ==
  /\ Current
  /\ Len(turns) >= 2
  /\ UserPositions(turns) = {}
  /\ out = turns

\* C4: a step that is a get_turns() call leaves self.turns as it was, and
\* no stored turn ever carries a cache annotation.
C4_NoSideEffectOnLog ==
  [][ /\ call'.op = "get_turns" => turns' = turns
      /\ MarkedPositions(turns') = {} ]_vars

C4_Witness ==
  /\ Current
  /\ Len(turns) >= 2
  /\ MarkedPositions(out) # {}
  /\ MarkedPositions(turns) = {}

\* C5: from the second get_turns() call on with no append in between, the
\* call returns the same list as the call before it.
C5_Idempotent ==
  calls >= 2 => out = before

C5_Witness ==
  /\ calls >= 2
  /\ Len(out) >= 2
  /\ MarkedPositions(out) # {}
  /\ out = before

C7_MarkMovesOnlyOnUserAppend ==
  Current =>
    /\ (Mark(before) # 0 /\ \A k \in Appended : SpeakerOf(turns[k]) = "assistant") =>
         /\ Mark(out) = Mark(before)
         /\ TextOf(out[Mark(out)]) = TextOf(before[Mark(before)])
         /\ Mark(out) \notin Appended
    /\ Mark(out) # Mark(before) =>
         /\ Mark(out) \in Appended
         /\ SpeakerOf(turns[Mark(out)]) = "user"
         /\ \A k \in Appended : k > Mark(out) => SpeakerOf(turns[k]) = "assistant"

C7_Witness ==
  /\ calls = 1
  /\ Len(before) >= 3
  /\ Mark(before) = Len(before)
  /\ Len(turns) = Len(before) + 1
  /\ SpeakerOf(turns[Len(turns)]) = "assistant"
  /\ Mark(out) = Mark(before)

\* C8: get_turns() returns on every reachable log without raising, and the
\* list it returns is a function of the log: the log itself with the
\* latest user turn, if any, replaced by its annotated copy.
C8_Total ==
  call.op = "get_turns" =>
    /\ error = "none"
    /\ Current
    /\ Len(out) = Len(turns)
    /\ \A k \in 1..Len(turns) :
         out[k] = IF k = LastUser(turns)
                    THEN [role |-> "user",
                          content |-> << [type |-> "text",
                                          text |-> TextOf(turns[k]),
                                          cache_control |-> "ephemeral"] >>]
                    ELSE turns[k]

C8_Witness ==
  /\ call.op = "get_turns"
  /\ error = "none"
  /\ Len(turns) >= 3
  /\ UserPositions(turns) = 1..Len(turns)
  /\ Len(out) = Len(turns)

\* the system parameter of a request carries the cache annotation
SystemAnnotated(req) ==
  \E b \in 1..Len(req.system) : req.system[b].cache_control = "ephemeral"

\* request number i of simulate_conversation has just been sent
Sent == pc = "wait"

\* C9 (as amended): in simulate_conversation every request, the first and
\* each later one, sends the system block with the cache annotation, and
\* among the messages the latest user turn is the only annotated one.
C9_SystemAnnotatedOnEveryRequest ==
  Sent =>
    /\ Len(request.system) = 1
    /\ SystemAnnotated(request)
    /\ MarkedPositions(request.messages) = {LastUser(turns)}

C9_Witness ==
  /\ Sent
  /\ i >= 2
  /\ SystemAnnotated(request)
  /\ MarkedPositions(request.messages) = {LastUser(turns)}

\* C9 (as stated): the system block carries the cache annotation on the
\* first request only; on every later request it is sent unannotated and
\* the latest user turn is the only annotated unit of the request.
C9_SystemAnnotatedOnFirstRequestOnly ==
  Sent =>
    /\ SystemAnnotated(request) <=> i = 1
    /\ i > 1 => MarkedPositions(request.messages) = {LastUser(turns)}

\* C10: request k of simulate_conversation (1 <= k <= len(questions))
\* carries 2k-1 messages that alternate user, assistant, ..., user; exactly
\* one is annotated, and it is the final one, the question just appended.
C10_OneMarkOnFinalMessage ==
  Sent =>
    /\ i \in 1..NumQuestions
    /\ request.messages = out
    /\ Len(request.messages) = 2 * i - 1
    /\ \A k \in 1..Len(request.messages) :
         SpeakerOf(request.messages[k]) =
           (IF k % 2 = 1 THEN "user" ELSE "assistant")
    /\ MarkedPositions(request.messages) = {Len(request.messages)}
    /\ TextOf(request.messages[Len(request.messages)]) = Question(i)

C10_Witness ==
  /\ Sent
  /\ i = NumQuestions
  /\ Len(request.messages) = 2 * NumQuestions - 1
  /\ MarkedPositions(request.messages) = {Len(request.messages)}

\* ------------------------------------------- the reference rendering
\* index of the last user turn by a reverse linear scan, 0 for none
RECURSIVE ReverseScanIndex(_, _)
ReverseScanIndex(ts, k) ==
  IF k = 0 THEN 0
  ELSE IF ts[k].role = "user" THEN k
  ELSE ReverseScanIndex(ts, k - 1)

\* turn with the annotation flag set
Flagged(turn) ==
  [role |-> turn.role,
   content |-> [b \in 1..Len(turn.content) |->
                  [turn.content[b] EXCEPT !.cache_control = "ephemeral"]]]

\* map over the log in forward order, flag set only at index idx
ForwardRender(ts, idx) ==
  [k \in 1..Len(ts) |-> IF k = idx THEN Flagged(ts[k]) ELSE ts[k]]

\* C11: the list get_turns() returns equals the forward rendering of the
\* log with the flag at the index of the last user turn, whether that index
\* comes from a reverse scan or from the field maintained on each append;
\* the two indexes agree in every state.
C11_EqualsReferenceRendering ==
  /\ last_user_index = ReverseScanIndex(turns, Len(turns))
  /\ Current =>
       /\ out = ForwardRender(turns, ReverseScanIndex(turns, Len(turns)))
       /\ out = ForwardRender(turns, last_user_index)

C11_Witness ==
  /\ Current
  /\ Len(turns) >= 4
  /\ Cardinality(UserPositions(turns)) >= 2
  /\ last_user_index > 1
  /\ last_user_index < Len(turns)
  /\ out = ForwardRender(turns, last_user_index)
  /\ out # turns

\* ------------------------------------------------- prefix stability
\* the speaker/text sequence of a rendering
Plain(s) == [k \in 1..Len(s) |-> <<SpeakerOf(s[k]), TextOf(s[k])>>]

IsPrefix(p, s) == Len(p) <= Len(s) /\ SubSeq(s, 1, Len(p)) = p

\* a user turn was appended after the call that returned `before`
NewerUser == \E k \in Appended : SpeakerOf(turns[k]) = "user"

\* C12: the speaker/text sequence of the previous get_turns() output, and of
\* the rendering of every shorter log the history went through, is a prefix
\* of that of the current output; up to the earlier output's length the two
\* outputs differ only at the earlier mark, which is rendered unannotated
\* exactly when a newer user turn exists.
C12_PrefixStable ==
  Current =>
    /\ IsPrefix(Plain(before), Plain(out))
    /\ \A n \in 0..Len(turns) :
         IsPrefix(Plain(GetTurns(SubSeq(turns, 1, n)).value), Plain(out))
    /\ \A k \in 1..Len(before) :
         out[k] # before[k] => (k = Mark(before) /\ ~Annotated(out[k]) /\ NewerUser)
    /\ (Mark(before) # 0 /\ NewerUser) => ~Annotated(out[Mark(before)])

C12_Witness ==
  /\ Current
  /\ Len(before) >= 2
  /\ Mark(before) # 0
  /\ Len(turns) > Len(before)
  /\ NewerUser
  /\ IsPrefix(Plain(before), Plain(out))
  /\ ~Annotated(out[Mark(before)])
  /\ Mark(out) > Len(before)

====
